---- MODULE Spec2Model ----
(***************************************************************************)
(* The scan orchestration layer of aws-ops-agent: the in-memory job store  *)
(* (dashboard/jobs.py), the dashboard's submit handlers and their          *)
(* background tasks (dashboard/server.py), and the region fan-out          *)
(* (aws_client.py).                                                        *)
(*                                                                         *)
(* asyncio runs one coroutine at a time: a background task runs from one   *)
(* await to the next without interruption, so each action below is the     *)
(* code between two awaits.  Work handed to asyncio.to_thread runs in a    *)
(* worker thread, concurrently with the event loop.                        *)
(***************************************************************************)
EXTENDS Integers, Sequences, FiniteSets, TLC

\* ------------------------------------------------------------------ bounds
MaxJobs == 2        \* submissions per run of the multi-job specifications
MaxClock == 2       \* distinct readings of datetime.now()
MaxDirect == 1      \* direct JobStore calls beside the background tasks
MaxCalls == 4       \* direct JobStore calls on a store used alone

\* ------------------------------------------------------- values and helpers
None == <<>>
Some(x) == <<x>>
IsSet(o) == o # <<>>

PENDING == "pending"
RUNNING == "running"
COMPLETED == "completed"
FAILED == "failed"
ScanJobStatus == {PENDING, RUNNING, COMPLETED, FAILED}

JobIds == 1..(MaxJobs + 1)

NoProfile == "None"
Profiles == {NoProfile, "prof"}

\* Identities a provider call can run under: the orchestrator's own, or the
\* temporary credentials assumed for an account.
Own == "own"
MgmtId == "m0"
MemberIds == {"a1", "a2"}
AllAccts == MemberIds \cup {MgmtId}
Idents == {Own} \cup AllAccts

\* sts.get_caller_identity()["Account"] of an identity
AccountOfIdent(i) == IF i = Own THEN MgmtId ELSE i

\* --------------------------------------------------------- core.SkillResult
CRITICAL == "critical"
LOW == "low"

\* Variant: the impact of the first finding alone
total_impact_first(findings) ==
  IF findings = <<>> THEN 0 ELSE Head(findings).monthly_impact

\* Monthly impact is counted in thousandths of a dollar.
RECURSIVE total_impact(_)
total_impact(findings) ==
  IF findings = <<>> THEN 0
  ELSE Head(findings).monthly_impact + total_impact(Tail(findings))

RECURSIVE critical_count(_)
critical_count(findings) ==
  IF findings = <<>> THEN 0
  ELSE (IF Head(findings).severity = CRITICAL THEN 1 ELSE 0)
       + critical_count(Tail(findings))

Finding(sev, imp) == [severity |-> sev, monthly_impact |-> imp, account_id |-> ""]

\* What a scanner invocation can return: no finding, one critical finding
\* with a sub-cent impact, or two low findings (8.0 and 73.0 dollars).
ScanOutcomes ==
  { <<>>,
    <<Finding(CRITICAL, 10004)>>,
    <<Finding(LOW, 8000), Finding(LOW, 73000)>> }

SmallYields == {<<>>, <<Finding(CRITICAL, 10004)>>}

SkillResult(name, findings, errors) ==
  [skill_name |-> name, findings |-> findings, errors |-> errors]

\* for f in result.findings: f.account_id = aid
RECURSIVE Stamp(_, _)
Stamp(findings, aid) ==
  IF findings = <<>> THEN <<>>
  ELSE <<[Head(findings) EXCEPT !.account_id = aid]>> \o Stamp(Tail(findings), aid)

\* ----------------------------------------------------------------- JobStore
ScanJob(names, now) ==
  [status |-> PENDING, skill_names |-> names, created_at |-> now,
   completed_at |-> None, results |-> None, org_results |-> None,
   error |-> None]

\* uuid.uuid4(): an id no job of the store has. The ids are numbered in the
\* order of creation, which is the order the dict _jobs keeps its entries in.
NewId(js) ==
  CHOOSE i \in JobIds \ DOMAIN js : \A k \in JobIds \ DOMAIN js : i <= k

\* Variant: create resets the jobs of the store that have the same scanners
JobStore_create_reset(js, names, now) ==
  [i \in DOMAIN js \cup {NewId(js)} |->
     IF i \in DOMAIN js /\ js[i].skill_names # names THEN js[i]
     ELSE ScanJob(names, now)]

JobStore_create(js, names, now) ==
  [i \in DOMAIN js \cup {NewId(js)} |->
     IF i \in DOMAIN js THEN js[i] ELSE ScanJob(names, now)]

\* Variant: an update of an id the store does not hold makes a job for it
JobStore_upsert(js, id, kwargs, now) ==
  IF id \in DOMAIN js THEN [js EXCEPT ![id].status = PENDING]
  ELSE [i \in DOMAIN js \cup {id} |->
          IF i \in DOMAIN js THEN js[i] ELSE ScanJob(<<>>, now)]

\* Variant: an update that stops after the status
JobStore_update_status(js, id, kwargs, now) ==
  IF id \notin DOMAIN js \/ "status" \notin DOMAIN kwargs THEN js
  ELSE [js EXCEPT ![id].status = kwargs["status"]]

\* The partial update of kwargs (a record of the fields given), then the
\* stamp of completed_at when kwargs carries a terminal status.
JobStore_update(js, id, kwargs, now) ==
  IF id \notin DOMAIN js THEN js
  ELSE
    LET job == js[id]
        set == [f \in DOMAIN job |->
                  IF f \in DOMAIN kwargs THEN kwargs[f] ELSE job[f]]
        stamped == IF "status" \in DOMAIN kwargs
                      /\ kwargs["status"] \in {COMPLETED, FAILED}
                   THEN [set EXCEPT !["completed_at"] = Some(now)]
                   ELSE set
    IN [js EXCEPT ![id] = stamped]

\* JobStore.get: the job, or None
JobStore_get(js, id) == IF id \in DOMAIN js THEN Some(js[id]) ELSE None

\* JobStore.list_all: sorted(values, key=created_at, reverse=True). The sort
\* is stable: jobs of equal created_at stay in the order of the dict.
ListedBefore(js, a, b) ==
  \/ js[a].created_at > js[b].created_at
  \/ js[a].created_at = js[b].created_at /\ a < b

list_all(js) ==
  [p \in 1..Cardinality(DOMAIN js) |->
     CHOOSE a \in DOMAIN js :
       Cardinality({b \in DOMAIN js : ListedBefore(js, b, a)}) = p - 1]

\* ------------------------------------------------- ordered dicts (dict[k]=v)
DictHas(d, k) == \E i \in 1..Len(d) : d[i].k = k
DictGet(d, k) == d[CHOOSE i \in 1..Len(d) : d[i].k = k].v
\* d[k] = v: replaces the value in place, or appends a new key
DictSet(d, k, v) ==
  IF DictHas(d, k)
  THEN [i \in 1..Len(d) |-> IF d[i].k = k THEN [k |-> k, v |-> v] ELSE d[i]]
  ELSE Append(d, [k |-> k, v |-> v])

\* ------------------------------------------------------------ organization
Acct(id) == [id |-> id, name |-> id]
Ou(name, ids) == [name |-> name, accounts |-> [i \in 1..Len(ids) |-> Acct(ids[i])]]

\* build_org_tree's snapshots: zero OUs, an OU with zero accounts, one and
\* two accounts, two OUs, an OU named "Management", and the management
\* account id as a member account (of "Management" and of another OU).
OneAccount == { <<Ou("Prod", <<"a1">>)>> }
SmallTrees == OneAccount \cup { <<>> }
AllTrees ==
  SmallTrees \cup
  { <<Ou("Prod", <<>>)>>,
    <<Ou("Prod", <<"a1", "a2">>)>>,
    <<Ou("Prod", <<"a1">>), Ou("Dev", <<"a2">>)>>,
    <<Ou("Management", <<"a1">>)>>,
    <<Ou("Management", <<MgmtId>>)>>,
    <<Ou("Prod", <<MgmtId>>), Ou("Dev", <<>>)>> }

\* SkillRegistry._skills, in registration order
Registries == { <<"s1">>, <<"s1", "s2">> }

\* -------------------------------------------------------------------- state
VARIABLES
  jobs,         \* JobStore._jobs: job id -> ScanJob
  tasks,        \* the background task _run of each submitted job: its locals
  env,          \* os.environ's AWS_ACCESS_KEY_ID / AWS_SECRET_ACCESS_KEY /
                \* AWS_SESSION_TOKEN: the identity whose credentials they hold
  clock,        \* datetime.now(timezone.utc)
  loopBusy,     \* the job whose _run is blocking the event loop, or 0
  resp,         \* the HTTP response of the event loop's last step, if
                \* that step was a request handler
  cfg,          \* the run's surroundings, which no action changes:
                \*   orgTree   the organization build_org_tree reads
                \*   registry  SkillRegistry._skills
                \*   yields    the finding lists a scanner can return
                \*   profiles  the profiles requests are made with
                \*   cap       the submissions made in this run
                \*   quota     the direct JobStore calls made in this run
  served,       \* history: the jobs whose results a response has carried
  direct,       \* history: the jobs updated by a direct JobStore.update call
  nDirect,      \* history: the number of direct JobStore calls made
  again,        \* history: the jobs whose results were served more than once
  pr,           \* one call of parallel_regions(fn, regions, max_workers):
                \*   regions, max_workers  its arguments
                \*   pc       "call", "collect", "returned" or "raised"
                \*   fut      per entry of regions, the future of fn(region)
                \*   results  the list it builds
                \*   calls    history: per entry, the invocations of fn made
  rl,           \* a RateLimiter:
                \*   rpm, burst  its arguments
                \*   requests    _requests: per client IP the times recorded
                \*   now         time.time(), in seconds
                \*   last        the last check: its client and what it returned
                \*   log         history: per client IP, the times of the
                \*               checks that returned True
  sc            \* one call of a skill's scan(regions, profile, account_id):
                \*   skill, regions, account_id  the scanner and its arguments
                \*   st       "running", "returned" or "raised"
                \*   pc       the step it is at: 0 is the account id lookup
                \*   acct, findings, errors  its locals

vars == <<jobs, tasks, env, clock, loopBusy, resp, cfg, served, direct,
          nDirect, again, pr, rl, sc>>

\* The three keys are written and restored together, with no await between
\* them, so one cell stands for the three.

\* ------------------------------------------------------- background tasks
new_acct_data(name) ==
  [name |-> name, findings_count |-> 0, critical_count |-> 0,
   monthly_impact |-> 0, skills |-> <<>>, error |-> None]

\* The locals of a _run closure.  thr is the worker thread of the
\* skill.scan call in flight; ident is the identity its clients resolved.
\* fatal, glog, gcur and gmgmt are history: the exception that escaped the
\* per-account boundary; per member account scanned, how its scan ended,
\* what its scanners returned and the acct_data recorded for it; and what
\* the management account's scanners returned.  For a scan-all task gcur
\* records, per scanner, what its scan did.
Task(kind, p, skills, reqRegions) ==
  [kind |-> kind, pc |-> "start", p |-> p, skills |-> skills,
   reqRegions |-> reqRegions, thr |-> "none", ident |-> Own,
   org_tree |-> <<>>, mgmt_id |-> "", ou_results |-> <<>>,
   ou |-> 1, ac |-> 1, ou_accounts |-> <<>>,
   acct_data |-> new_acct_data(""), si |-> 1, old_env |-> Own,
   mgmt_data |-> new_acct_data("Management Account"),
   fatal |-> None, glog |-> <<>>, gcur |-> <<>>, gmgmt |-> <<>>]

CurOu(t) == t.org_tree[t.ou]
CurAcct(t) == CurOu(t).accounts[t.ac]

\* Variant: the account's counters are set to the last scanner's
AccumulateLast(data, aid, skill, findings) ==
  LET fs == Stamp(findings, aid)
  IN [data EXCEPT
        !.skills = DictSet(@, skill,
                     [findings_count |-> Len(fs),
                      monthly_impact |-> total_impact(fs),
                      findings |-> fs]),
        !.findings_count = Len(fs),
        !.critical_count = critical_count(fs),
        !.monthly_impact = total_impact(fs)]

\* acct_data after one scanner's result (server.py 248-257 and 273-282)
Accumulate(data, aid, skill, findings) ==
  LET fs == Stamp(findings, aid)
  IN [data EXCEPT
        !.skills = DictSet(@, skill,
                     [findings_count |-> Len(fs),
                      monthly_impact |-> total_impact(fs),
                      findings |-> fs]),
        !.findings_count = @ + Len(fs),
        !.critical_count = @ + critical_count(fs),
        !.monthly_impact = @ + total_impact(fs)]

\* The head of the two for loops (server.py 203-212): the next account to
\* assume a role for, closing every OU that has no account left; pc "mgmt"
\* when the tree is exhausted.
RECURSIVE SeekAccount(_)
SeekAccount(t) ==
  IF t.ou > Len(t.org_tree) THEN [t EXCEPT !.pc = "mgmt"]
  ELSE IF t.ac <= Len(CurOu(t).accounts)
  THEN [t EXCEPT !.pc = "assume", !.acct_data = new_acct_data(CurAcct(t).name),
                 !.gcur = <<>>]
  ELSE SeekAccount([t EXCEPT
         !.ou_results = DictSet(@, CurOu(t).name, [accounts |-> t.ou_accounts]),
         !.ou = @ + 1, !.ac = 1, !.ou_accounts = <<>>])

\* Variant: the account's entry is put before the entries already there
EndAccountFirst(t, how) ==
  SeekAccount([t EXCEPT
    !.ou_accounts = <<[k |-> CurAcct(t).id, v |-> t.acct_data]>> \o @,
    !.glog = Append(@, [ou |-> CurOu(t).name, id |-> CurAcct(t).id,
                        how |-> how, results |-> t.gcur,
                        data |-> t.acct_data]),
    !.ac = @ + 1, !.thr = "none"])

\* ou_accounts[aid] = acct_data (server.py 262), then on to the next account
EndAccount(t, how) ==
  SeekAccount([t EXCEPT
    !.ou_accounts = DictSet(@, CurAcct(t).id, t.acct_data),
    !.glog = Append(@, [ou |-> CurOu(t).name, id |-> CurAcct(t).id,
                        how |-> how, results |-> t.gcur,
                        data |-> t.acct_data]),
    !.ac = @ + 1, !.thr = "none"])

\* round(total_impact, 2) on thousandths: to the nearest cent, ties to even
Round2(x) ==
  LET q == x \div 10
      r == x % 10
  IN IF r < 5 THEN 10 * q
     ELSE IF r > 5 THEN 10 * (q + 1)
     ELSE 10 * (IF q % 2 = 0 THEN q ELSE q + 1)

RECURSIVE SumAccounts(_, _)
SumAccounts(accts, field) ==
  IF accts = <<>> THEN 0
  ELSE Head(accts).v[field] + SumAccounts(Tail(accts), field)

RECURSIVE SumOus(_, _)
SumOus(ous, field) ==
  IF ous = <<>> THEN 0
  ELSE SumAccounts(Head(ous).v.accounts, field) + SumOus(Tail(ous), field)

\* Variant: the totals are taken before the management entry is added
OrgResultTotalsFirst(t) ==
  LET withUnit == IF DictHas(t.ou_results, "Management") THEN t.ou_results
                  ELSE Append(t.ou_results,
                              [k |-> "Management", v |-> [accounts |-> <<>>]])
      unit == DictGet(withUnit, "Management")
      by_ou == DictSet(withUnit, "Management",
                 [accounts |-> DictSet(unit.accounts, t.mgmt_id, t.mgmt_data)])
  IN [by_ou |-> by_ou,
      summary |-> [total_findings |-> SumOus(withUnit, "findings_count"),
                   total_monthly_impact |-> Round2(SumOus(withUnit, "monthly_impact")),
                   total_critical |-> SumOus(withUnit, "critical_count")]]

\* Variant: an entry the unit "Management" already has for the id is kept
OrgResultKeepMember(t) ==
  LET withUnit == IF DictHas(t.ou_results, "Management") THEN t.ou_results
                  ELSE Append(t.ou_results,
                              [k |-> "Management", v |-> [accounts |-> <<>>]])
      unit == DictGet(withUnit, "Management")
      by_ou == IF DictHas(unit.accounts, t.mgmt_id) THEN withUnit
               ELSE DictSet(withUnit, "Management",
                      [accounts |-> DictSet(unit.accounts, t.mgmt_id, t.mgmt_data)])
  IN [by_ou |-> by_ou,
      summary |-> [total_findings |-> SumOus(by_ou, "findings_count"),
                   total_monthly_impact |-> Round2(SumOus(by_ou, "monthly_impact")),
                   total_critical |-> SumOus(by_ou, "critical_count")]]

\* server.py 284-303: the management entry, the totals, the result
OrgResult(t) ==
  LET withUnit == IF DictHas(t.ou_results, "Management") THEN t.ou_results
                  ELSE Append(t.ou_results,
                              [k |-> "Management", v |-> [accounts |-> <<>>]])
      unit == DictGet(withUnit, "Management")
      by_ou == DictSet(withUnit, "Management",
                 [accounts |-> DictSet(unit.accounts, t.mgmt_id, t.mgmt_data)])
  IN [by_ou |-> by_ou,
      summary |-> [total_findings |-> SumOus(by_ou, "findings_count"),
                   total_monthly_impact |-> Round2(SumOus(by_ou, "monthly_impact")),
                   total_critical |-> SumOus(by_ou, "critical_count")]]

\* After the account loops: start the management account's scans, or, with
\* no scanner to run, go on to the result (pc "final").
Settle(t) ==
  IF t.pc # "mgmt" THEN t
  ELSE IF Len(t.skills) = 0 THEN [t EXCEPT !.pc = "final"]
  ELSE [t EXCEPT !.pc = "mgmt_scan", !.si = 1, !.thr = "started"]

\* ------------------------------------------------------------ exceptions
E_tree == "build_org_tree failed"
E_regions == "describe_regions failed"
E_sts == "get_caller_identity failed"
E_assume == "assume_role denied"
E_scan == "scan raised"
E_pool == "max_workers must be greater than 0"

\* What a skill.scan call does: returns findings, or raises.
Outs == {[ok |-> TRUE, findings |-> f] : f \in cfg.yields}
        \cup {[ok |-> FALSE, findings |-> <<>>]}

\* ----------------------------------------------------------------- helpers
LoopFree == loopBusy = 0

Response(op, code, job, status, body) ==
  [op |-> op, code |-> code, job |-> job, status |-> status, body |-> body]

NoResponse == Response("none", 0, 0, "", <<>>)

\* job_store.update(job.id, **kwargs) by the task of job j, which goes on as t
TaskUpdate(j, kwargs, t) ==
  /\ jobs' = JobStore_update(jobs, j, kwargs, clock)
  /\ tasks' = [tasks EXCEPT ![j] = t]

\* Variant: the handler drops the message
FailWithoutMessage(j, msg) ==
  TaskUpdate(j, [status |-> FAILED],
             [tasks[j] EXCEPT !.pc = "done", !.thr = "none", !.fatal = Some(msg)])

\* Variant: the exception ends the task with no update
FailUnrecorded(j, msg) ==
  /\ tasks' = [tasks EXCEPT ![j] = [tasks[j] EXCEPT !.pc = "done", !.thr = "none",
                                                   !.fatal = Some(msg)]]
  /\ UNCHANGED jobs

\* except Exception as e: job_store.update(job.id, status=FAILED, error=str(e))
Fail(j, msg) ==
  TaskUpdate(j, [status |-> FAILED, error |-> Some(msg)],
             [tasks[j] EXCEPT !.pc = "done", !.thr = "none", !.fatal = Some(msg)])

\* The org task goes on as t: to its next await, or through the result to
\* the COMPLETED update when nothing is left to await.
OrgGoOn(j, t) ==
  LET t2 == Settle(t)
  IN IF t2.pc = "final"
     THEN TaskUpdate(j, [status |-> COMPLETED, org_results |-> Some(OrgResult(t2))],
                     [t2 EXCEPT !.pc = "done"])
     ELSE /\ tasks' = [tasks EXCEPT ![j] = t2]
          /\ UNCHANGED jobs

Frame == UNCHANGED <<cfg, direct, nDirect, pr, rl, sc>>

\* --------------------------------------------------------- submit handlers
RegistryHas(name) == \E i \in 1..Len(cfg.registry) : cfg.registry[i] = name
SkillInputs ==
  {cfg.registry[i] : i \in 1..Len(cfg.registry)} \cup {"nonexistent"}

\* Variant: the handler lets the task take its first step before it answers
AcceptStarted(t) ==
  LET id == NewId(jobs)
      js == JobStore_update(JobStore_create(jobs, t.skills, clock), id,
                            [status |-> RUNNING], clock)
  IN /\ jobs' = js
     /\ tasks' = [i \in DOMAIN tasks \cup {id} |->
                    IF i = id THEN t ELSE tasks[i]]
     /\ resp' = Response("submit", 200, id, js[id].status, <<>>)

\* The tail shared by the three handlers: job_store.create, create_task(_run),
\* and the response, which reads job.status.
Accept(t) ==
  LET id == NewId(jobs)
      js == JobStore_create(jobs, t.skills, clock)
  IN /\ jobs' = js
     /\ tasks' = [i \in DOMAIN tasks \cup {id} |->
                    IF i = id THEN t ELSE tasks[i]]
     /\ resp' = Response("submit", 200, id, js[id].status, <<>>)

\* Variant: the job is created before the request is refused
RejectLeavingJob(code) ==
  /\ resp' = Response("submit", code, 0, "", <<>>)
  /\ jobs' = JobStore_create(jobs, <<>>, clock)
  /\ UNCHANGED tasks

\* raise HTTPException(status_code=code) before job_store.create
Reject(code) ==
  /\ resp' = Response("submit", code, 0, "", <<>>)
  /\ UNCHANGED <<jobs, tasks>>

\* POST /api/scan/{skill_name}
scan_skill(skill_name, p, regions) ==
  /\ LoopFree
  /\ Cardinality(DOMAIN jobs) < cfg.cap
  /\ IF ~RegistryHas(skill_name) THEN Reject(400)
     ELSE IF regions = "raise" THEN Reject(500)
     ELSE Accept(Task("scan", p, <<skill_name>>, FALSE))
  /\ UNCHANGED <<env, clock, loopBusy, served, again>>
  /\ Frame

\* POST /api/scan-all
scan_all(p, regions) ==
  /\ LoopFree
  /\ Cardinality(DOMAIN jobs) < cfg.cap
  /\ IF regions = "raise" THEN Reject(500)
     ELSE Accept(Task("scanall", p, cfg.registry, FALSE))
  /\ UNCHANGED <<env, clock, loopBusy, served, again>>
  /\ Frame

\* POST /api/org-scan; skill "" is a request that names no skill
org_scan(skill, p, reqRegions) ==
  /\ LoopFree
  /\ Cardinality(DOMAIN jobs) < cfg.cap
  /\ IF skill # "" /\ ~RegistryHas(skill) THEN Reject(400)
     ELSE Accept(Task("org", p, IF skill # "" THEN <<skill>> ELSE cfg.registry,
                      reqRegions))
  /\ UNCHANGED <<env, clock, loopBusy, served, again>>
  /\ Frame

\* ------------------------------------------------------------ worker thread
\* The identity boto3 resolves for a session of this profile: a named
\* profile's own credentials, else the default chain, which reads os.environ.
Resolve(profile) == IF profile = NoProfile THEN env ELSE Own

\* The profile the task passes to skill.scan: None for a member account
ScanProfile(t) == IF t.pc = "member_scan" THEN NoProfile ELSE t.p

\* The account the invocation is made for, and the identity it is due
ScanTarget(t) ==
  IF t.pc = "member_scan" THEN CurAcct(t).id
  ELSE IF t.pc = "mgmt_scan" THEN t.mgmt_id ELSE MgmtId
ScanDue(t) == IF t.pc = "member_scan" THEN CurAcct(t).id ELSE Own

\* The scan thread of job j creates its clients.
ThreadResolve(j) ==
  /\ j \in DOMAIN tasks
  /\ tasks[j].thr = "started"
  /\ LET t == tasks[j]
         ran == Resolve(ScanProfile(t))
     IN /\ tasks' = [tasks EXCEPT ![j] = [t EXCEPT !.thr = "resolved", !.ident = ran]]
  /\ UNCHANGED <<jobs, env, clock, loopBusy, resp, served, again>>
  /\ Frame

\* The findings of a scan of the caller's own account: every scanner stamps
\* account_id or get_account_id(profile) on them.
OwnResult(skill, out, ran) ==
  SkillResult(skill, Stamp(out.findings, AccountOfIdent(ran)), <<>>)

\* ------------------------------------------------ scan_skill._run (136-142)
\* Variant: the task does not report RUNNING
ScanStartSilent(j) ==
  /\ LoopFree
  /\ j \in DOMAIN tasks
  /\ tasks[j].kind = "scan" /\ tasks[j].pc = "start"
  /\ TaskUpdate(j, [error |-> None],
                [tasks[j] EXCEPT !.pc = "scanning", !.thr = "started"])
  /\ UNCHANGED <<env, clock, loopBusy, served, again>>
  /\ resp' = NoResponse
  /\ Frame

ScanStart(j) ==
  /\ LoopFree
  /\ j \in DOMAIN tasks
  /\ tasks[j].kind = "scan" /\ tasks[j].pc = "start"
  /\ TaskUpdate(j, [status |-> RUNNING],
                [tasks[j] EXCEPT !.pc = "scanning", !.thr = "started"])
  /\ UNCHANGED <<env, clock, loopBusy, served, again>>
  /\ resp' = NoResponse
  /\ Frame

ScanDone(j, out) ==
  /\ LoopFree
  /\ j \in DOMAIN tasks
  /\ tasks[j].kind = "scan" /\ tasks[j].pc = "scanning"
  /\ tasks[j].thr = "resolved"
  /\ IF out.ok
     THEN TaskUpdate(j, [status |-> COMPLETED,
                         results |-> Some(<<OwnResult(tasks[j].skills[1], out,
                                                      tasks[j].ident)>>)],
                     [tasks[j] EXCEPT !.pc = "done", !.thr = "none"])
     ELSE Fail(j, E_scan)
  /\ UNCHANGED <<env, clock, loopBusy, served, again>>
  /\ resp' = NoResponse
  /\ Frame

\* ------------------------------------------------- scan_all._run (154-172)
\* The thread pool is driven with blocking calls, so from the RUNNING update
\* to the last update the event loop runs nothing else.
ScanAllStart(j) ==
  /\ LoopFree
  /\ j \in DOMAIN tasks
  /\ tasks[j].kind = "scanall" /\ tasks[j].pc = "start"
  /\ TaskUpdate(j, [status |-> RUNNING], [tasks[j] EXCEPT !.pc = "pool"])
  /\ loopBusy' = j
  /\ UNCHANGED <<env, clock, served, again>>
  /\ resp' = NoResponse
  /\ Frame

\* The orders in which the futures of n scanners can complete
Orders(n) == {o \in [1..n -> 1..n] : \A a, b \in 1..n : a # b => o[a] # o[b]}

\* Variant: a scanner that raised is passed over
PoolResultsOfReturned(t, order, outs, ran) ==
  LET all == [i \in 1..Len(t.skills) |->
                [ok |-> outs[order[i]].ok,
                 r |-> OwnResult(t.skills[order[i]], outs[order[i]], ran)]]
      kept == SelectSeq(all, LAMBDA x : x.ok)
  IN [i \in 1..Len(kept) |-> kept[i].r]

\* results, in completion order: the scanner's result, or for a scanner that
\* raised a SkillResult that carries the message
PoolResults(t, order, outs, ran) ==
  [i \in 1..Len(t.skills) |->
     LET k == order[i]
     IN IF outs[k].ok THEN OwnResult(t.skills[k], outs[k], ran)
        ELSE SkillResult(t.skills[k], <<>>, <<E_scan>>)]

ScanAllRun(j) ==
  /\ loopBusy = j
  /\ tasks[j].kind = "scanall" /\ tasks[j].pc = "pool"
  /\ LET t == tasks[j]
         n == Len(t.skills)
         ran == Resolve(t.p)
     IN IF n = 0
        THEN Fail(j, E_pool)
        ELSE \E order \in Orders(n), outs \in [1..n -> Outs] :
               TaskUpdate(j, [status |-> COMPLETED,
                              results |-> Some(PoolResults(t, order, outs, ran))],
                          [t EXCEPT !.pc = "done", !.ident = ran,
                                    !.gcur = outs])
  /\ loopBusy' = 0
  /\ UNCHANGED <<env, clock, served, again>>
  /\ resp' = NoResponse
  /\ Frame

\* -------------------------------------------------- org_scan._run (194-307)
OrgStart(j) ==
  /\ LoopFree
  /\ j \in DOMAIN tasks
  /\ tasks[j].kind = "org" /\ tasks[j].pc = "start"
  /\ TaskUpdate(j, [status |-> RUNNING], [tasks[j] EXCEPT !.pc = "tree"])
  /\ UNCHANGED <<env, clock, loopBusy, served, again>>
  /\ resp' = NoResponse
  /\ Frame

\* build_org_tree returns or raises (197)
OrgTree(j, ok) ==
  /\ LoopFree
  /\ j \in DOMAIN tasks
  /\ tasks[j].kind = "org" /\ tasks[j].pc = "tree"
  /\ IF ok
     THEN /\ tasks' = [tasks EXCEPT ![j] =
                 [@ EXCEPT !.org_tree = cfg.orgTree,
                           !.pc = IF tasks[j].reqRegions THEN "mgmt_id"
                                  ELSE "regions"]]
          /\ UNCHANGED jobs
     ELSE Fail(j, E_tree)
  /\ UNCHANGED <<env, clock, loopBusy, served, again>>
  /\ resp' = NoResponse
  /\ Frame

\* get_regions returns or raises (198)
OrgRegions(j, ok) ==
  /\ LoopFree
  /\ j \in DOMAIN tasks
  /\ tasks[j].kind = "org" /\ tasks[j].pc = "regions"
  /\ IF ok
     THEN /\ tasks' = [tasks EXCEPT ![j] = [@ EXCEPT !.pc = "mgmt_id"]]
          /\ UNCHANGED jobs
     ELSE Fail(j, E_regions)
  /\ UNCHANGED <<env, clock, loopBusy, served, again>>
  /\ resp' = NoResponse
  /\ Frame

\* get_account_id returns the account of the identity its STS client
\* resolved, or raises (199); then the loops run to their first await.
OrgMgmtId(j, ok) ==
  /\ LoopFree
  /\ j \in DOMAIN tasks
  /\ tasks[j].kind = "org" /\ tasks[j].pc = "mgmt_id"
  /\ IF ok
     THEN OrgGoOn(j, SeekAccount([tasks[j] EXCEPT
                       !.mgmt_id = AccountOfIdent(Resolve(tasks[j].p)),
                       !.ou = 1, !.ac = 1, !.ou_accounts = <<>>,
                       !.ou_results = <<>>]))
     ELSE Fail(j, E_sts)
  /\ UNCHANGED <<env, clock, loopBusy, served, again>>
  /\ resp' = NoResponse
  /\ Frame

\* acct_data["error"] = f"Failed to assume role {req.role} in {aid}: {e}"
AssumeError(aid, msg) == Some(<<"Failed to assume role in", aid, msg>>)

\* assume_role_session returns the account's credentials or raises (213-216).
\* With credentials the first scanner is started under them: the three
\* environment keys are saved, overwritten, and the scan handed to a thread.
OrgAssume(j, ok) ==
  /\ LoopFree
  /\ j \in DOMAIN tasks
  /\ tasks[j].kind = "org" /\ tasks[j].pc = "assume"
  /\ LET t == tasks[j]
         aid == CurAcct(t).id
     IN IF ~ok
        THEN /\ OrgGoOn(j, EndAccount(
                   [t EXCEPT !.acct_data.error = AssumeError(aid, E_assume)],
                   "assume_failed"))
             /\ UNCHANGED env
        ELSE IF Len(t.skills) = 0
        THEN OrgGoOn(j, EndAccount(t, "ok")) /\ UNCHANGED env
        ELSE /\ tasks' = [tasks EXCEPT ![j] =
                    [t EXCEPT !.pc = "member_scan", !.si = 1,
                              !.thr = "started", !.old_env = env]]
             /\ env' = aid
             /\ UNCHANGED jobs
  /\ UNCHANGED <<clock, loopBusy, served, again>>
  /\ resp' = NoResponse
  /\ Frame

\* A member account's scan returns or raises (237-257).  finally: the
\* environment keys are put back to what was saved.  A result is added to
\* acct_data and the next scanner started (the keys saved and overwritten
\* again); an exception is caught by the account's except clause.
OrgMemberScan(j, out) ==
  /\ LoopFree
  /\ j \in DOMAIN tasks
  /\ tasks[j].kind = "org" /\ tasks[j].pc = "member_scan"
  /\ tasks[j].thr = "resolved"
  /\ LET t == tasks[j]
         aid == CurAcct(t).id
         restored == t.old_env
         t1 == [t EXCEPT
                  !.acct_data = Accumulate(@, aid, t.skills[t.si], out.findings),
                  !.gcur = Append(@, out.findings)]
     IN IF ~out.ok
        THEN /\ OrgGoOn(j, EndAccount(
                   [t EXCEPT !.acct_data.error = AssumeError(aid, E_scan)],
                   "scan_raised"))
             /\ env' = restored
        ELSE IF t.si < Len(t.skills)
        THEN /\ tasks' = [tasks EXCEPT ![j] =
                    [t1 EXCEPT !.si = @ + 1, !.thr = "started",
                               !.old_env = restored]]
             /\ env' = aid
             /\ UNCHANGED jobs
        ELSE /\ OrgGoOn(j, EndAccount(t1, "ok"))
             /\ env' = restored
  /\ UNCHANGED <<clock, loopBusy, served, again>>
  /\ resp' = NoResponse
  /\ Frame

\* The management account's scan returns or raises (271-282); an exception
\* here is outside every account's try and fails the job.
OrgMgmtScan(j, out) ==
  /\ LoopFree
  /\ j \in DOMAIN tasks
  /\ tasks[j].kind = "org" /\ tasks[j].pc = "mgmt_scan"
  /\ tasks[j].thr = "resolved"
  /\ LET t == tasks[j]
         t1 == [t EXCEPT
                  !.mgmt_data = Accumulate(@, t.mgmt_id, t.skills[t.si], out.findings),
                  !.gmgmt = Append(@, out.findings),
                  !.thr = "none"]
     IN IF ~out.ok THEN Fail(j, E_scan)
        ELSE IF t.si < Len(t.skills)
        THEN /\ tasks' = [tasks EXCEPT ![j] =
                    [t1 EXCEPT !.si = @ + 1, !.thr = "started"]]
             /\ UNCHANGED jobs
        ELSE TaskUpdate(j, [status |-> COMPLETED,
                            org_results |-> Some(OrgResult(t1))],
                        [t1 EXCEPT !.pc = "done"])
  /\ UNCHANGED <<env, clock, loopBusy, served, again>>
  /\ resp' = NoResponse
  /\ Frame

\* ------------------------------------------------------------ GET handlers
\* GET /api/jobs/{job_id} (359-369)
get_job(job_id) ==
  /\ LoopFree
  /\ resp' = IF job_id \notin DOMAIN jobs
             THEN Response("get_job", 404, job_id, "", <<>>)
             ELSE LET job == jobs[job_id]
                  IN Response("get_job", 200, job_id, job.status,
                              <<job.completed_at, job.error>>)
  /\ UNCHANGED <<jobs, tasks, env, clock, loopBusy, served, again>>
  /\ Frame

\* _serialize_result (384-394)
serialize_result(r) ==
  [skill_name |-> r.skill_name, findings |-> r.findings, errors |-> r.errors,
   total_impact |-> total_impact(r.findings),
   critical_count |-> critical_count(r.findings)]

\* Variant: every job that has stopped is served
ReadyWhenStopped(job) == job.status \in {COMPLETED, FAILED}

\* The status for which get_job_results serves content (376)
Ready(job) == job.status = COMPLETED

\* GET /api/jobs/{job_id}/results (371-382)
results_response(job_id) ==
  IF job_id \notin DOMAIN jobs
  THEN Response("results", 404, job_id, "", <<>>)
  ELSE
    LET job == jobs[job_id]
    IN IF ~Ready(job)
       THEN Response("results", 400, job_id, job.status, <<>>)
       ELSE IF IsSet(job.org_results)
       THEN Response("results", 200, job_id, job.status, <<job.org_results[1]>>)
       ELSE IF IsSet(job.results) /\ job.results[1] # <<>>
       THEN Response("results", 200, job_id, job.status,
                     [i \in 1..Len(job.results[1]) |->
                        serialize_result(job.results[1][i])])
       ELSE Response("results", 200, job_id, job.status, <<>>)

\* Variant: serving a job's results takes them out of the store
get_job_results_once(job_id) ==
  /\ LoopFree
  /\ resp' = results_response(job_id)
  /\ served' = IF resp'.code = 200 THEN served \cup {job_id} ELSE served
  /\ again' = IF resp'.code = 200 /\ job_id \in served
              THEN again \cup {job_id} ELSE again
  /\ jobs' = IF resp'.code = 200
             THEN [jobs EXCEPT ![job_id].results = None, ![job_id].org_results = None]
             ELSE jobs
  /\ UNCHANGED <<tasks, env, clock, loopBusy>>
  /\ Frame

get_job_results(job_id) ==
  /\ LoopFree
  /\ resp' = results_response(job_id)
  /\ served' = IF resp'.code = 200 THEN served \cup {job_id} ELSE served
  /\ again' = IF resp'.code = 200 /\ job_id \in served
              THEN again \cup {job_id} ELSE again
  /\ UNCHANGED <<jobs, tasks, env, clock, loopBusy>>
  /\ Frame

\* -------------------------------------------------------------------- time
Tick ==
  /\ clock < MaxClock
  /\ clock' = clock + 1
  /\ UNCHANGED <<jobs, tasks, env, loopBusy, resp, served, again>>
  /\ Frame

\* --------------------------------------------- direct calls of the JobStore
\* The store is app.state.job_store: code that holds the app (the tests do)
\* calls it directly.
DirectKwargs ==
  {[status |-> s] : s \in ScanJobStatus}
  \cup {[status |-> COMPLETED, results |-> Some(<<>>)],
        [status |-> FAILED, error |-> Some("boom")],
        [completed_at |-> None]}

DirectCreate ==
  /\ nDirect < cfg.quota
  /\ Cardinality(DOMAIN jobs) < cfg.cap
  /\ jobs' = JobStore_create(jobs, <<"zombie-hunter">>, clock)
  /\ nDirect' = nDirect + 1
  /\ UNCHANGED <<tasks, env, clock, loopBusy, resp, served, again, cfg, direct, pr, rl, sc>>

DirectUpdate(job_id, kwargs) ==
  /\ nDirect < cfg.quota
  /\ jobs' = JobStore_update(jobs, job_id, kwargs, clock)
  /\ nDirect' = nDirect + 1
  /\ direct' = direct \cup {job_id}
  /\ UNCHANGED <<tasks, env, clock, loopBusy, resp, served, again, cfg, pr, rl, sc>>

DirectGet(job_id) ==
  /\ resp' = LET got == JobStore_get(jobs, job_id)
             IN Response("get", IF IsSet(got) THEN 200 ELSE 404, job_id,
                         IF IsSet(got) THEN got[1].status ELSE "", got)
  /\ UNCHANGED <<jobs, tasks, env, clock, loopBusy, served, again>>
  /\ Frame

DirectList ==
  /\ resp' = Response("list_all", 200, 0, "", list_all(jobs))
  /\ UNCHANGED <<jobs, tasks, env, clock, loopBusy, served, again>>
  /\ Frame

\* -------------------------------------------- SkillResult (core.py 48-63)
MaxFindings == 3
FindingKinds ==
  {Finding(CRITICAL, 10004), Finding(CRITICAL, 0), Finding(LOW, 8000),
   Finding("high", 73000), Finding("medium", 500)}
FindingLists == UNION {[1..n -> FindingKinds] : n \in 0..MaxFindings}

\* _serialize_result(SkillResult(skill_name, findings)): reads the two
\* properties
Summarize(findings) ==
  /\ resp' = Response("result", 200, 0, "",
                      serialize_result(SkillResult("s1", findings, <<>>)))
  /\ UNCHANGED <<jobs, tasks, env, clock, loopBusy, served, again>>
  /\ Frame

\* ------------------------------------- parallel_regions (aws_client.py 33-43)
MaxRegions == 3
Regions == {"us-east-1", "us-west-2"}
RegionLists == UNION {[1..n -> Regions] : n \in 0..MaxRegions}
WorkerCaps == {1, 2}

\* The future of fn(region) for one entry of regions
\*   st  "none" (not submitted), "queued", "running", "returned", "raised"
\*   value  what fn returned;  seen  as_completed has yielded it
Future(st, value, seen) == [st |-> st, value |-> value, seen |-> seen]

\* What fn returns for the entry at index i: a list of 0, 1 or 2 items. The
\* items carry the index of the entry, so that each invocation's are its own.
FnReturns(i) == {<<>>, <<[at |-> i, n |-> 1]>>,
                 <<[at |-> i, n |-> 1], [at |-> i, n |-> 2]>>}

\* The state at the call
ParallelCall(regions, max_workers) ==
  [regions |-> regions, max_workers |-> max_workers, pc |-> "call",
   fut |-> [i \in 1..Len(regions) |-> Future("none", <<>>, FALSE)],
   results |-> <<>>,
   calls |-> [i \in 1..Len(regions) |-> 0]]

Min(a, b) == IF a < b THEN a ELSE b

\* ThreadPoolExecutor(max_workers=min(len(regions), max_workers)), line 36
PoolSize(c) == Min(Len(c.regions), c.max_workers)

Running(c) == {i \in DOMAIN c.fut : c.fut[i].st = "running"}
Queued(c) == {i \in DOMAIN c.fut : c.fut[i].st = "queued"}

Rest == UNCHANGED <<jobs, tasks, env, clock, loopBusy, resp, cfg, served,
                    direct, nDirect, again, rl, sc>>

\* Lines 35-37: the pool is made, and every entry submitted. The executor's
\* constructor raises ValueError("max_workers must be greater than 0") for a
\* size of 0 or less.
PoolOpen ==
  /\ pr.pc = "call"
  /\ pr' = IF PoolSize(pr) <= 0
           THEN [pr EXCEPT !.pc = "raised"]
           ELSE [pr EXCEPT !.pc = "collect",
                           !.fut = [i \in DOMAIN pr.fut |->
                                      Future("queued", <<>>, FALSE)]]
  /\ Rest

\* Variant: a thread for every work item, whatever the size of the pool
WorkerStartUncapped(i) ==
  /\ i \in Queued(pr)
  /\ \A k \in Queued(pr) : i <= k
  /\ pr' = [pr EXCEPT !.fut[i].st = "running", !.calls[i] = @ + 1]
  /\ Rest

\* A worker thread takes the first work item of the queue and calls fn; the
\* pool has at most PoolSize threads. The threads run whatever the caller's
\* position is.
WorkerStart(i) ==
  /\ i \in Queued(pr)
  /\ \A k \in Queued(pr) : i <= k
  /\ Cardinality(Running(pr)) < PoolSize(pr)
  /\ pr' = [pr EXCEPT !.fut[i].st = "running", !.calls[i] = @ + 1]
  /\ Rest

\* fn(region) returns a list, or raises
WorkerEnd(i, ok, value) ==
  /\ i \in Running(pr)
  /\ pr' = [pr EXCEPT !.fut[i].st = IF ok THEN "returned" ELSE "raised",
                      !.fut[i].value = value]
  /\ Rest

\* Variant: results.append of the first item only
CollectedFirstOnly(results, f) ==
  IF f.st = "returned" /\ f.value # <<>> THEN Append(results, f.value[1])
  ELSE results

\* results.extend(future.result()) for a returned future; pass for a raised one
Collected(results, f) ==
  IF f.st = "returned" THEN results \o f.value ELSE results

\* Lines 38-42: as_completed yields a finished future not yet yielded
Collect(i) ==
  /\ pr.pc = "collect"
  /\ i \in DOMAIN pr.fut
  /\ pr.fut[i].st \in {"returned", "raised"}
  /\ ~pr.fut[i].seen
  /\ pr' = [pr EXCEPT !.fut[i].seen = TRUE,
                      !.results = Collected(@, pr.fut[i])]
  /\ Rest

\* Variant: return as soon as no finished future is left to yield
PoolReturnEarly ==
  /\ pr.pc = "collect"
  /\ \A i \in DOMAIN pr.fut :
       pr.fut[i].st \in {"returned", "raised"} => pr.fut[i].seen
  /\ pr' = [pr EXCEPT !.pc = "returned"]
  /\ Rest

\* Line 43: every future has been yielded; the with block ends (shutdown
\* with wait=True), return results
PoolReturn ==
  /\ pr.pc = "collect"
  /\ \A i \in DOMAIN pr.fut : pr.fut[i].seen
  /\ pr' = [pr EXCEPT !.pc = "returned"]
  /\ Rest

\* ------------------------------------------- RateLimiter (security.py 56-80)
ClientIps == {"1.1.1.1", "2.2.2.2"}
MaxNow == 66
\* The instants at which checks are made: 4 and 5 seconds after the first,
\* and 59, 60 and 64 seconds after one before
Instants == {0, 4, 5, 60, 64}
window == 60
burst_window == 5

\* __init__: _requests = defaultdict(list), the empty list for every client
RateLimiter(requests_per_minute, burst) ==
  [rpm |-> requests_per_minute, burst |-> burst,
   requests |-> [ip \in ClientIps |-> <<>>],
   now |-> 0, last |-> None,
   log |-> [ip \in ClientIps |-> <<>>]]

\* [t for t in ts if now - t < within]
RECURSIVE Within(_, _, _)
Within(ts, now, within) ==
  IF ts = <<>> THEN <<>>
  ELSE (IF now - Head(ts) < within THEN <<Head(ts)>> ELSE <<>>)
       \o Within(Tail(ts), now, within)

\* Variant: the burst check alone
AllowedByBurst(kept, now, rpm, burst) ==
  ~(Len(Within(kept, now, burst_window)) >= burst)

\* Lines 72-78: False for a burst, False for a full minute, else True
Allowed(kept, now, rpm, burst) ==
  /\ ~(Len(Within(kept, now, burst_window)) >= burst)
  /\ ~(Len(kept) >= rpm)

\* check(client_ip): the old entries dropped, the two limits, the append
RateLimiter_check(client_ip) ==
  LET kept == Within(rl.requests[client_ip], rl.now, window)
      ok == Allowed(kept, rl.now, rl.rpm, rl.burst)
  IN /\ rl' = [rl EXCEPT
                 !.requests[client_ip] = IF ok THEN Append(kept, rl.now) ELSE kept,
                 !.last = Some([ip |-> client_ip, allowed |-> ok]),
                 !.log[client_ip] = IF ok THEN Append(@, rl.now) ELSE @]
     /\ UNCHANGED <<jobs, tasks, env, clock, loopBusy, resp, cfg, served,
                    direct, nDirect, again, pr, sc>>

\* time.time() moves on between two checks
Elapse(d) ==
  /\ rl.now + d <= MaxNow
  /\ rl.now + d \in Instants
  /\ rl' = [rl EXCEPT !.now = @ + d]
  /\ UNCHANGED <<jobs, tasks, env, clock, loopBusy, resp, cfg, served,
                 direct, nDirect, again, pr, sc>>

\* ----------------------------------------------- the scanners (skills/*.py)
MaxScanRegions == 2
ScanRegionLists == UNION {[1..n -> Regions] : n \in 0..MaxScanRegions}

\* The steps of a scan after its account id lookup: a fan-out over the
\* regions or a global provider call, inside a try/except that appends to
\* errors (guarded) or not.
Step(kind, label, guarded) == [kind |-> kind, label |-> label, guarded |-> guarded]

\* ZombieHunterSkill.scan (zombie_hunter.py 20-36)
ZombieSteps ==
  <<Step("fanout", "ebs", TRUE), Step("fanout", "eip", TRUE),
    Step("fanout", "nat", TRUE), Step("fanout", "idle_ec2", TRUE),
    Step("fanout", "idle_rds", TRUE)>>

\* SecurityPostureSkill.scan (security_posture.py 44-72)
PostureSteps ==
  <<Step("fanout", "GuardDuty", FALSE), Step("global", "S3", TRUE),
    Step("fanout", "SecurityGroups", FALSE), Step("global", "IAM", TRUE),
    Step("fanout", "SecurityHub", TRUE)>>

\* CostAnomalySkill.scan (cost_anomaly.py 20-36)
CostSteps ==
  <<Step("global", "Cost Anomaly Detection", TRUE),
    Step("global", "Week-over-week", TRUE),
    Step("global", "New services", TRUE)>>

Skills == {"zombie-hunter", "security-posture", "cost-anomaly"}

StepsOf(skill) ==
  CASE skill = "zombie-hunter" -> ZombieSteps
    [] skill = "security-posture" -> PostureSteps
    [] OTHER -> CostSteps

\* A finding of a step, in a region ("" for a global call)
Found(label, region) == [step |-> label, region |-> region, account_id |-> ""]

\* parallel_regions(fn, regions) as a function of what fn does in each
\* entry (oks[i]: it returns a finding, else it raises): the executor's
\* constructor raises for no regions, and a raise of fn is dropped.
RECURSIVE Gathered(_, _, _, _)
Gathered(label, regions, oks, i) ==
  IF i > Len(regions) THEN <<>>
  ELSE (IF oks[i] THEN <<Found(label, regions[i])>> ELSE <<>>)
       \o Gathered(label, regions, oks, i + 1)

FanOut(label, regions, oks) ==
  IF Len(regions) = 0 THEN [ok |-> FALSE, items |-> <<>>]
  ELSE [ok |-> TRUE, items |-> Gathered(label, regions, oks, 1)]

\* The state at the call
ScanCall(skill, regions, account_id) ==
  [skill |-> skill, regions |-> regions, account_id |-> account_id,
   st |-> "running", pc |-> 0, acct |-> "", findings |-> <<>>,
   errors |-> <<>>]

Apart == UNCHANGED <<jobs, tasks, env, clock, loopBusy, resp, cfg, served,
                     direct, nDirect, again, pr, rl>>

\* acct = account_id or get_account_id(profile): outside every try
ScanAccount(ok) ==
  /\ sc.st = "running" /\ sc.pc = 0
  /\ IF IsSet(sc.account_id)
     THEN ok /\ sc' = [sc EXCEPT !.acct = sc.account_id[1], !.pc = 1]
     ELSE sc' = IF ok THEN [sc EXCEPT !.acct = MgmtId, !.pc = 1]
                ELSE [sc EXCEPT !.st = "raised"]
  /\ Apart

AtStep(kind) ==
  /\ sc.st = "running"
  /\ sc.pc \in 1..Len(StepsOf(sc.skill))
  /\ StepsOf(sc.skill)[sc.pc].kind = kind

\* What a step that raised does to the scan
Raised(step) ==
  IF step.guarded
  THEN [sc EXCEPT !.errors = Append(@, step.label), !.pc = @ + 1]
  ELSE [sc EXCEPT !.st = "raised"]

\* findings.extend(parallel_regions(fn, regions))
ScanFanOut(oks) ==
  /\ AtStep("fanout")
  /\ LET step == StepsOf(sc.skill)[sc.pc]
         got == FanOut(step.label, sc.regions, oks)
     IN sc' = IF got.ok
              THEN [sc EXCEPT !.findings = @ \o got.items, !.pc = @ + 1]
              ELSE Raised(step)
  /\ Apart

\* findings.extend(self._check_...(profile))
ScanGlobal(ok) ==
  /\ AtStep("global")
  /\ LET step == StepsOf(sc.skill)[sc.pc]
     IN sc' = IF ok
              THEN [sc EXCEPT !.findings = Append(@, Found(step.label, "")),
                              !.pc = @ + 1]
              ELSE Raised(step)
  /\ Apart

\* for f in findings: f.account_id = acct; return SkillResult(...)
ScanReturn ==
  /\ sc.st = "running"
  /\ sc.pc = Len(StepsOf(sc.skill)) + 1
  /\ sc' = [sc EXCEPT !.st = "returned",
                      !.findings = Stamp(sc.findings, sc.acct)]
  /\ Apart

\* ------------------------------------------------------------ specifications
InitState ==
  /\ jobs = <<>>
  /\ tasks = <<>>
  /\ env = Own
  /\ clock = 0
  /\ loopBusy = 0
  /\ resp = NoResponse
  /\ served = {}
  /\ direct = {}
  /\ nDirect = 0
  /\ again = {}
  /\ pr = ParallelCall(<<>>, 1)
  /\ rl = RateLimiter(1, 1)
  /\ sc = ScanCall("cost-anomaly", <<>>, None)

Config(trees, registries, yields, profiles, cap, quota) ==
  [orgTree : trees, registry : registries, yields : {yields},
   profiles : {profiles}, cap : {cap}, quota : {quota}]

\* The dashboard under concurrent submissions.
Init ==
  /\ InitState
  /\ cfg \in Config(SmallTrees, {<<"s1">>}, SmallYields, Profiles, MaxJobs, 0)

Submit ==
  \/ \E s \in SkillInputs, p \in cfg.profiles, r \in {"given", "ok", "raise"} :
       scan_skill(s, p, r)
  \/ \E p \in cfg.profiles, r \in {"given", "ok", "raise"} : scan_all(p, r)
  \/ \E s \in SkillInputs \cup {""}, p \in cfg.profiles, r \in BOOLEAN :
       org_scan(s, p, r)

OrgBackground(j) ==
  \/ OrgStart(j)
  \/ \E ok \in BOOLEAN : OrgTree(j, ok)
  \/ \E ok \in BOOLEAN : OrgRegions(j, ok)
  \/ \E ok \in BOOLEAN : OrgMgmtId(j, ok)
  \/ \E ok \in BOOLEAN : OrgAssume(j, ok)
  \/ \E out \in Outs : OrgMemberScan(j, out)
  \/ \E out \in Outs : OrgMgmtScan(j, out)

Background ==
  \E j \in JobIds :
    \/ ThreadResolve(j)
    \/ ScanStart(j)
    \/ \E out \in Outs : ScanDone(j, out)
    \/ ScanAllStart(j)
    \/ ScanAllRun(j)
    \/ OrgBackground(j)

\* Requests for the jobs of the store and for one id it does not hold
Read ==
  \E j \in DOMAIN jobs \cup {NewId(jobs)} : get_job(j) \/ get_job_results(j)

Direct ==
  \E j \in JobIds, kwargs \in DirectKwargs : DirectUpdate(j, kwargs)

Next == Submit \/ Background

Spec == Init /\ [][Next]_vars

\* The dashboard with its GET handlers.
InitRead ==
  /\ InitState
  /\ cfg \in Config(OneAccount, {<<"s1">>}, SmallYields, {NoProfile}, MaxJobs, 0)

NextRead == Submit \/ Background \/ Read

SpecRead == InitRead /\ [][NextRead]_vars

\* The dashboard, and code that calls its job store directly.
InitApi ==
  /\ InitState
  /\ cfg \in Config(OneAccount, {<<"s1">>}, {<<>>}, {NoProfile}, MaxJobs, MaxDirect)

NextApi == Submit \/ Background \/ Direct

SpecApi == InitApi /\ [][NextApi]_vars

\* The job store used alone.
InitStore ==
  /\ InitState
  /\ cfg \in Config({<<>>}, {<<"s1">>}, {<<>>}, {NoProfile}, MaxJobs, MaxCalls)

NextStore ==
  \/ DirectCreate
  \/ Direct
  \/ \E j \in JobIds : DirectGet(j)
  \/ DirectList
  \/ Tick

SpecStore == InitStore /\ [][NextStore]_vars

\* One organization scan, over every tree shape and registry.
InitOrg ==
  /\ InitState
  /\ cfg \in Config(AllTrees, Registries, ScanOutcomes, Profiles, 1, 0)

NextOrg ==
  \/ \E s \in SkillInputs \cup {""}, p \in cfg.profiles, r \in BOOLEAN :
       org_scan(s, p, r)
  \/ \E j \in JobIds : ThreadResolve(j) \/ OrgBackground(j)

SpecOrg == InitOrg /\ [][NextOrg]_vars

\* One call of parallel_regions, for every list of regions and worker cap.
InitRegions ==
  /\ jobs = <<>> /\ tasks = <<>> /\ env = Own /\ clock = 0 /\ loopBusy = 0
  /\ resp = NoResponse /\ served = {} /\ direct = {} /\ nDirect = 0
  /\ again = {}
  /\ cfg \in Config({<<>>}, {<<"s1">>}, {<<>>}, {NoProfile}, 0, 0)
  /\ \E r \in RegionLists, w \in WorkerCaps : pr = ParallelCall(r, w)
  /\ rl = RateLimiter(1, 1)
  /\ sc = ScanCall("cost-anomaly", <<>>, None)

NextRegions ==
  \/ PoolOpen
  \/ \E i \in 1..MaxRegions : WorkerStart(i)
  \/ \E i \in 1..MaxRegions : \E v \in FnReturns(i) : WorkerEnd(i, TRUE, v)
  \/ \E i \in 1..MaxRegions : WorkerEnd(i, FALSE, <<>>)
  \/ \E i \in 1..MaxRegions : Collect(i)
  \/ PoolReturn

SpecRegions == InitRegions /\ [][NextRegions]_vars

\* One call of a scanner's scan, for every scanner, list of regions and
\* account id argument.
InitScan ==
  /\ jobs = <<>> /\ tasks = <<>> /\ env = Own /\ clock = 0 /\ loopBusy = 0
  /\ resp = NoResponse /\ served = {} /\ direct = {} /\ nDirect = 0
  /\ again = {}
  /\ cfg \in Config({<<>>}, {<<"s1">>}, {<<>>}, {NoProfile}, 0, 0)
  /\ pr = ParallelCall(<<>>, 1)
  /\ rl = RateLimiter(1, 1)
  /\ \E k \in Skills, r \in ScanRegionLists, a \in {None, Some("a1")} :
       sc = ScanCall(k, r, a)

NextScan ==
  \/ \E ok \in BOOLEAN : ScanAccount(ok)
  \/ \E oks \in [1..MaxScanRegions -> BOOLEAN] : ScanFanOut(oks)
  \/ \E ok \in BOOLEAN : ScanGlobal(ok)
  \/ ScanReturn

SpecScan == InitScan /\ [][NextScan]_vars

\* The dashboard with its tasks and worker threads scheduled fairly: the
\* event loop runs every task that is ready, and every provider call and
\* scanner invocation returns or raises.
TaskStep(j) ==
  \/ ThreadResolve(j)
  \/ ScanStart(j)
  \/ \E out \in Outs : ScanDone(j, out)
  \/ ScanAllStart(j)
  \/ ScanAllRun(j)
  \/ OrgBackground(j)

InitLive ==
  /\ InitState
  /\ cfg \in Config(OneAccount, {<<"s1">>}, {<<>>}, {NoProfile}, MaxJobs, 0)

NextLive == Submit \/ \E j \in JobIds : TaskStep(j)

SpecLive ==
  InitLive /\ [][NextLive]_vars /\ \A j \in JobIds : WF_vars(TaskStep(j))

\* A SkillResult and its properties, for every list of findings.
InitResult ==
  /\ InitState
  /\ cfg \in Config({<<>>}, {<<"s1">>}, {<<>>}, {NoProfile}, 0, 0)

NextResult == \E findings \in FindingLists : Summarize(findings)

SpecResult == InitResult /\ [][NextResult]_vars

\* One RateLimiter under the checks of two clients as time passes; limits
\* where the minute binds and where the burst binds.
InitLimiter ==
  /\ jobs = <<>> /\ tasks = <<>> /\ env = Own /\ clock = 0 /\ loopBusy = 0
  /\ resp = NoResponse /\ served = {} /\ direct = {} /\ nDirect = 0
  /\ again = {}
  /\ cfg \in Config({<<>>}, {<<"s1">>}, {<<>>}, {NoProfile}, 0, 0)
  /\ pr = ParallelCall(<<>>, 1)
  /\ sc = ScanCall("cost-anomaly", <<>>, None)
  /\ \E lim \in {<<2, 3>>, <<3, 2>>} : rl = RateLimiter(lim[1], lim[2])

NextLimiter ==
  \/ \E ip \in ClientIps : RateLimiter_check(ip)
  \/ \E d \in {1, 4, 55} : Elapse(d)

SpecLimiter == InitLimiter /\ [][NextLimiter]_vars

\* Single scans and scan-all jobs over registries of one and two scanners.
InitAll ==
  /\ InitState
  /\ cfg \in Config({<<>>}, Registries, SmallYields, {NoProfile}, MaxJobs, 0)

NextAll ==
  \/ \E s \in SkillInputs, p \in cfg.profiles, r \in {"given", "ok", "raise"} :
       scan_skill(s, p, r)
  \/ \E p \in cfg.profiles, r \in {"given", "ok", "raise"} : scan_all(p, r)
  \/ \E j \in JobIds : ThreadResolve(j)
  \/ \E j \in JobIds : ScanStart(j)
  \/ \E j \in JobIds : \E out \in Outs : ScanDone(j, out)
  \/ \E j \in JobIds : ScanAllStart(j)
  \/ \E j \in JobIds : ScanAllRun(j)

SpecAll == InitAll /\ [][NextAll]_vars

\* =================================================================== claims

OrgJobs == {j \in DOMAIN tasks : tasks[j].kind = "org"}
OrgDone == {j \in OrgJobs : tasks[j].pc = "done"}
OrgCompleted == {j \in OrgDone : jobs[j].status = COMPLETED}

\* The result tree of a completed org job, and the entry of an account in it
ByOu(j) == jobs[j].org_results[1].by_ou
Summary(j) == jobs[j].org_results[1].summary
HasEntry(j, ou, id) ==
  DictHas(ByOu(j), ou) /\ DictHas(DictGet(ByOu(j), ou).accounts, id)
Entry(j, ou, id) == DictGet(DictGet(ByOu(j), ou).accounts, id)

\* Over a list of finding lists (what scanners returned): the findings, the
\* critical findings, the impact
RECURSIVE Returned(_, _)
Returned(rs, what) ==
  IF rs = <<>> THEN 0
  ELSE (CASE what = "findings" -> Len(Head(rs))
          [] what = "critical" ->
               Cardinality({i \in 1..Len(Head(rs)) : Head(rs)[i].severity = CRITICAL})
          [] OTHER -> total_impact(Head(rs)))
       + Returned(Tail(rs), what)

\* ----------------------------------------------------------------------- C1
Legal(a, b) ==
  \/ a = b
  \/ a = PENDING /\ b = RUNNING
  \/ a = RUNNING /\ b \in {COMPLETED, FAILED}

\* C1 as stated: over any sequence of JobStore.create/update calls and any
\* interleaving of background tasks, a job's status changes only along
\* PENDING->RUNNING, RUNNING->COMPLETED, RUNNING->FAILED.
C1_StatusOnlyForward ==
  [][\A j \in DOMAIN jobs : Legal(jobs[j].status, jobs'[j].status)]_vars

\* C1 amended: the status of a job that only its background task updates (no
\* direct JobStore.update call names it) changes only along PENDING->RUNNING,
\* RUNNING->COMPLETED, RUNNING->FAILED, in every interleaving of the tasks.
C1_TaskDrivenStatusOnlyForward ==
  [][\A j \in DOMAIN jobs :
       j \notin direct' => Legal(jobs[j].status, jobs'[j].status)]_vars

\* A job that only its task updated has come through RUNNING to COMPLETED
\* while a direct call has updated another job.
C1_Witness ==
  \E j \in DOMAIN tasks \ direct :
    /\ tasks[j].pc = "done" /\ jobs[j].status = COMPLETED
    /\ direct # {}

\* ----------------------------------------------------------------------- C2
\* C2 as stated: completed_at is None while the status is PENDING or
\* RUNNING, and once set no update changes or clears it.
C2_CompletedAtStampedOnce ==
  [][\A j \in DOMAIN jobs' :
       /\ jobs'[j].status \in {PENDING, RUNNING} => ~IsSet(jobs'[j].completed_at)
       /\ j \in DOMAIN jobs /\ IsSet(jobs[j].completed_at)
            => jobs'[j].completed_at = jobs[j].completed_at]_vars

\* ----------------------------------------------------------------------- C3
\* C3 as stated: the credentials assumed for a member account are never in
\* the process environment, which every concurrent call reads.
C3_NoCredentialsInEnvironment == env = Own

\* ----------------------------------------------------------------------- C4
\* The identity a scanner invocation of job j has run under
Ran(j) == tasks[j].ident
HasRun(j) ==
  \/ tasks[j].thr = "resolved"
  \/ tasks[j].kind = "scanall" /\ tasks[j].pc = "done" /\ Len(tasks[j].skills) > 0

\* C4 as stated: in every interleaving, a scanner invocation made for a
\* member account runs under the credentials assumed for that account, and
\* one made for the management account or a single-account job under the
\* orchestrator's own identity.
C4_InvocationsUnderOwnAccount ==
  \A j \in DOMAIN tasks : HasRun(j) => Ran(j) = ScanDue(tasks[j])

\* ----------------------------------------------------------------------- C5
\* C5 as stated: an account whose role assumption failed has an entry with
\* findings_count 0 and an error; every other account has the entry its own
\* scanners' results give; and a job in which nothing else failed is COMPLETED.
C5_AssumeFailureIsolated ==
  \A j \in OrgDone :
    LET t == tasks[j]
    IN /\ ~IsSet(t.fatal) => jobs[j].status = COMPLETED
       /\ jobs[j].status = COMPLETED =>
            \A i \in 1..Len(t.glog) :
              LET e == t.glog[i]
              IN /\ HasEntry(j, e.ou, e.id)
                 /\ e.how = "assume_failed" =>
                      /\ Entry(j, e.ou, e.id).findings_count = 0
                      /\ IsSet(Entry(j, e.ou, e.id).error)
                 /\ e.how = "ok" =>
                      /\ Entry(j, e.ou, e.id).findings_count
                           = Returned(e.results, "findings")
                      /\ Entry(j, e.ou, e.id).critical_count
                           = Returned(e.results, "critical")
                      /\ Entry(j, e.ou, e.id).monthly_impact
                           = Returned(e.results, "impact")
                      /\ ~IsSet(Entry(j, e.ou, e.id).error)

\* ----------------------------------------------------------------------- C6
Items(results) == {results[k] : k \in 1..Len(results)}
ReturnedItems(c) ==
  UNION {Items(c.fut[i].value) : i \in {k \in DOMAIN c.fut : c.fut[k].st = "returned"}}

\* C6: when parallel_regions returns, fn has been invoked exactly once per
\* entry of regions and the list holds exactly the items returned by the
\* invocations that did not raise: none lost, none twice, none of an
\* invocation that raised.
C6_ExactlyTheReturnedItems ==
  pr.pc = "returned" =>
    /\ \A i \in 1..Len(pr.regions) : pr.calls[i] = 1
    /\ Items(pr.results) = ReturnedItems(pr)
    /\ Cardinality(Items(pr.results)) = Len(pr.results)
    /\ \A k \in 1..Len(pr.results) : pr.fut[pr.results[k].at].st = "returned"

\* A call over three entries with a repeated region has returned: one
\* invocation raised and the other two returned items.
C6_Witness ==
  /\ pr.pc = "returned"
  /\ Len(pr.regions) = 3 /\ pr.regions[1] = pr.regions[3]
  /\ pr.fut[2].st = "raised"
  /\ Len(pr.fut[1].value) = 2 /\ Len(pr.fut[3].value) = 1
  /\ Len(pr.results) = 3

\* ----------------------------------------------------------------------- C7
\* C7 as stated: for every list of regions, the empty one included, and
\* every fn, parallel_regions returns normally: no exception escapes it.
C7_NoExceptionEscapes == pr.pc # "raised"

\* ----------------------------------------------------------------------- C8
\* The sum of a field of the acct_data of the member accounts scanned that
\* satisfy keep, and of the management account's
RECURSIVE ScannedSum(_, _, _, _)
ScannedSum(t, i, field, dropReplaced) ==
  IF i > Len(t.glog) THEN t.mgmt_data[field]
  ELSE (IF dropReplaced /\ t.glog[i].ou = "Management" /\ t.glog[i].id = t.mgmt_id
        THEN 0 ELSE t.glog[i].data[field])
       + ScannedSum(t, i + 1, field, dropReplaced)

\* C8 as stated: for every tree shape the totals of a completed org scan are
\* the sums of findings_count, critical_count and monthly_impact over every
\* account that was scanned, each once.
C8_TotalsSumEveryAccount ==
  \A j \in OrgCompleted :
    /\ Summary(j).total_findings = ScannedSum(tasks[j], 1, "findings_count", FALSE)
    /\ Summary(j).total_critical = ScannedSum(tasks[j], 1, "critical_count", FALSE)
    /\ Summary(j).total_monthly_impact
         = ScannedSum(tasks[j], 1, "monthly_impact", FALSE)

\* C8 amended: the totals are the sums over the account entries of the
\* result tree, each once: every member account scanned, but for a member
\* entry of the management account id in the unit "Management", which the
\* management account's entry has replaced, and the management account;
\* total_monthly_impact is that sum rounded to two decimals.
C8_TotalsSumTreeEntries ==
  \A j \in OrgCompleted :
    /\ Summary(j).total_findings = ScannedSum(tasks[j], 1, "findings_count", TRUE)
    /\ Summary(j).total_critical = ScannedSum(tasks[j], 1, "critical_count", TRUE)
    /\ Summary(j).total_monthly_impact
         = Round2(ScannedSum(tasks[j], 1, "monthly_impact", TRUE))

\* A completed scan of two units whose member accounts and management
\* account all have findings, with a total that the rounding changed.
C8_Witness ==
  \E j \in OrgCompleted :
    /\ Len(tasks[j].glog) = 2
    /\ \A i \in 1..2 : tasks[j].glog[i].data.findings_count > 0
    /\ tasks[j].glog[1].ou # tasks[j].glog[2].ou
    /\ tasks[j].mgmt_data.findings_count > 0
    /\ Summary(j).total_monthly_impact
         # ScannedSum(tasks[j], 1, "monthly_impact", TRUE)

\* ----------------------------------------------------------------------- C9
\* C9: an exception raised outside the per-account boundary (by the tree
\* fetch, the region discovery, the account id lookup or a management scan)
\* leaves the job FAILED with the exception's message as its error and no
\* result tree.
C9_FatalErrorFailsJob ==
  \A j \in OrgJobs :
    IsSet(tasks[j].fatal) =>
      /\ tasks[j].pc = "done"
      /\ jobs[j].status = FAILED
      /\ jobs[j].error = tasks[j].fatal
      /\ ~IsSet(jobs[j].org_results)
      /\ ~IsSet(jobs[j].results)

\* The management scan raised after a member account had been scanned.
C9_Witness ==
  \E j \in OrgJobs :
    /\ tasks[j].fatal = Some(E_scan)
    /\ Len(tasks[j].glog) > 0
    /\ jobs[j].status = FAILED

\* ---------------------------------------------------------------------- C10
\* C10: a results request is answered with content exactly when the job is
\* COMPLETED, with the not-ready error when it is PENDING, RUNNING or FAILED,
\* and no job whose results were served is FAILED later.
C10_ResultsOnlyWhenCompleted ==
  /\ resp.op = "results" /\ resp.job \in DOMAIN jobs =>
       /\ resp.code = 200 <=> jobs[resp.job].status = COMPLETED
       /\ resp.code = 400 <=> jobs[resp.job].status \in {PENDING, RUNNING, FAILED}
       /\ resp.code = 200 /\ IsSet(jobs[resp.job].org_results)
            => resp.body = jobs[resp.job].org_results
  /\ \A j \in served : j \in DOMAIN jobs /\ jobs[j].status = COMPLETED

\* The results of one job have been served and a request for a FAILED job
\* has just been refused.
C10_Witness ==
  /\ resp.op = "results" /\ resp.code = 400
  /\ resp.job \in DOMAIN jobs /\ jobs[resp.job].status = FAILED
  /\ served # {}

\* ---------------------------------------------------------------------- C11
\* C11: results(job_id) is idempotent on a COMPLETED job: every call
\* returns the content the store holds for the job, that content is the same
\* before and after every step of any task or handler, and a call leaves the
\* job store unchanged.
C11_ResultsIdempotent ==
  [][/\ \A j \in DOMAIN jobs :
          jobs[j].status = COMPLETED =>
            /\ jobs'[j] = jobs[j]
            /\ results_response(j)' = results_response(j)
            /\ resp'.op = "results" /\ resp'.job = j
                 => resp' = results_response(j)
     /\ resp'.op = "results" => jobs' = jobs]_vars

\* The results of a completed org scan have been served a second time, with
\* content, while another job's task is running.
C11_Witness ==
  /\ resp.op = "results" /\ resp.code = 200 /\ resp.job \in again
  /\ IsSet(jobs[resp.job].org_results)
  /\ resp.body[1].summary.total_findings > 0
  /\ \E k \in DOMAIN jobs : k # resp.job /\ jobs[k].status = RUNNING

\* ---------------------------------------------------------------------- C12
\* C12 as stated, for the requests that name a registered scanner (an
\* unknown name is refused with 400): whatever fails in an external
\* collaborator, submit answers with the id of a job of the store; no
\* exception leaves the handler.
C12_SubmitNeverRaises ==
  resp.op = "submit" /\ resp.code # 400 =>
    resp.code = 200 /\ resp.job \in DOMAIN jobs

\* ---------------------------------------------------------------------- C13
\* C13 as stated: whichever step of a scan fails (the account id lookup, a
\* regional fan-out, a global provider call), and for every list of
\* regions, the empty one included, scan does not raise: it returns a
\* result.
C13_ScanNeverRaises == sc.st # "raised"

\* ---------------------------------------------------------------------- C14
\* C14: every org scan that is COMPLETED holds, in the unit "Management", the
\* entry of the management account id: the management scan's own entry (no
\* error), with the breakdown of each requested scanner and of no other,
\* whatever the tree and whichever member accounts failed.
C14_ManagementEntryPresent ==
  \A j \in OrgCompleted :
    LET t == tasks[j]
    IN /\ HasEntry(j, "Management", t.mgmt_id)
       /\ LET e == Entry(j, "Management", t.mgmt_id)
          IN /\ e.name = "Management Account"
             /\ ~IsSet(e.error)
             /\ Len(e.skills) = Len(t.skills)
             /\ Len(t.gmgmt) = Len(t.skills)
             /\ \A i \in 1..Len(t.skills) :
                  /\ DictHas(e.skills, t.skills[i])
                  /\ DictGet(e.skills, t.skills[i]).findings_count
                       = Len(t.gmgmt[i])
                  /\ DictGet(e.skills, t.skills[i]).monthly_impact
                       = total_impact(t.gmgmt[i])

\* A scan with two scanners is completed; the tree's unit "Management" held
\* the management account id as a member, whose role assumption failed; the
\* management scan found something.
C14_Witness ==
  \E j \in OrgCompleted :
    /\ Len(tasks[j].skills) = 2
    /\ \E i \in 1..Len(tasks[j].glog) :
         /\ tasks[j].glog[i].ou = "Management"
         /\ tasks[j].glog[i].id = tasks[j].mgmt_id
         /\ tasks[j].glog[i].how = "assume_failed"
    /\ Entry(j, "Management", tasks[j].mgmt_id).findings_count > 0

\* ---------------------------------------------------------------------- C15
\* A job as a handler may observe it
Whole(job) ==
  /\ job.status = COMPLETED =>
       /\ IsSet(job.completed_at) /\ ~IsSet(job.error)
       /\ IsSet(job.results) \/ IsSet(job.org_results)
  /\ job.status = FAILED =>
       /\ IsSet(job.completed_at) /\ IsSet(job.error)
       /\ ~IsSet(job.results) /\ ~IsSet(job.org_results)

\* C15: at every point where a request handler can run between the steps of
\* the background tasks, no job of the store shows a partially applied
\* update, and what get_job answers is such a job: COMPLETED comes with
\* completed_at, no error and the results; FAILED with completed_at and
\* error and no results.
C15_NoTornRead ==
  /\ \A j \in DOMAIN jobs : Whole(jobs[j])
  /\ resp.op = "get_job" /\ resp.code = 200 =>
       /\ resp.status = COMPLETED => IsSet(resp.body[1]) /\ ~IsSet(resp.body[2])
       /\ resp.status = FAILED => IsSet(resp.body[1]) /\ IsSet(resp.body[2])

\* get_job has answered for a COMPLETED job while the other job was FAILED.
C15_Witness ==
  /\ resp.op = "get_job" /\ resp.code = 200 /\ resp.status = COMPLETED
  /\ \E k \in DOMAIN jobs : k # resp.job /\ jobs[k].status = FAILED

\* ---------------------------------------------------------------------- C16
\* C16: the response to every accepted submit reports pending: when the
\* handler answers, the job is new and PENDING and its task has not taken a
\* step or started a scanner; and a job goes from PENDING to RUNNING only in
\* the first step of its own background task, never in a handler.
C16_SubmitReportsPending ==
  [][/\ resp'.op = "submit" /\ resp'.code = 200 /\ resp' # resp =>
          resp'.job \in DOMAIN jobs' \ DOMAIN jobs
     /\ \A j \in DOMAIN jobs' \ DOMAIN jobs :
          /\ resp' = Response("submit", 200, j, PENDING, <<>>)
          /\ jobs'[j].status = PENDING
          /\ tasks'[j].pc = "start" /\ tasks'[j].thr = "none"
     /\ \A j \in DOMAIN jobs :
          jobs[j].status = PENDING /\ jobs'[j].status = RUNNING =>
            /\ resp' = NoResponse
            /\ tasks[j].pc = "start" /\ tasks'[j].pc # "start"]_vars

\* A submit has been answered with pending while the task of an earlier job
\* is running.
C16_Witness ==
  /\ resp.op = "submit" /\ resp.code = 200 /\ resp.status = PENDING
  /\ \E k \in DOMAIN jobs : k # resp.job /\ jobs[k].status = RUNNING

\* ---------------------------------------------------------------------- C17
\* C17: with the tasks scheduled fairly and every provider call and scanner
\* invocation returning or raising, every submitted job is eventually
\* COMPLETED or FAILED.
C17_EveryJobEnds ==
  \A j \in JobIds :
    (j \in DOMAIN jobs) ~> (j \in DOMAIN jobs /\ jobs[j].status \in {COMPLETED, FAILED})

\* Two jobs submitted together have both ended, an org scan among them.
C17_Witness ==
  /\ Cardinality(DOMAIN jobs) = MaxJobs
  /\ \A j \in DOMAIN jobs : jobs[j].status \in {COMPLETED, FAILED}
  /\ \E j \in DOMAIN jobs : tasks[j].kind = "org" /\ Len(tasks[j].glog) > 0
  /\ \E j \in DOMAIN jobs : tasks[j].kind = "scanall"

\* ---------------------------------------------------------------------- C18
\* C18: create adds exactly one job to the store, under an id no job of
\* the store had, with status PENDING, created_at the time of the call and
\* completed_at, results, org_results and error unset, and it changes and
\* removes no job the store already had.
C18_CreateIsFresh ==
  [][DOMAIN jobs' # DOMAIN jobs =>
       \E j \in JobIds \ DOMAIN jobs :
         /\ DOMAIN jobs' = DOMAIN jobs \cup {j}
         /\ jobs'[j].status = PENDING
         /\ jobs'[j].created_at = clock
         /\ ~IsSet(jobs'[j].completed_at) /\ ~IsSet(jobs'[j].results)
         /\ ~IsSet(jobs'[j].org_results) /\ ~IsSet(jobs'[j].error)
         /\ \A k \in DOMAIN jobs : jobs'[k] = jobs[k]]_vars

\* A job has been created, at a later time, beside a job that had been
\* updated to COMPLETED with results.
C18_Witness ==
  \E a \in DOMAIN jobs, b \in DOMAIN jobs :
    /\ jobs[a].status = COMPLETED /\ IsSet(jobs[a].results)
    /\ jobs[b] = ScanJob(<<"zombie-hunter">>, clock)
    /\ IsSet(jobs[a].completed_at)
    /\ jobs[b].created_at > jobs[a].completed_at[1]

\* ---------------------------------------------------------------------- C19
\* C19 as stated: list_all returns every job of the store exactly once, and
\* a job created after another precedes it in the list, however quickly the
\* two were created one after the other.
C19_MostRecentFirst ==
  [][resp'.op = "list_all" /\ resp' # resp =>
       LET l == resp'.body
       IN /\ Len(l) = Cardinality(DOMAIN jobs)
          /\ {l[p] : p \in 1..Len(l)} = DOMAIN jobs
          /\ \A p \in 1..Len(l), q \in 1..Len(l) : p < q => l[p] > l[q]]_vars

\* ---------------------------------------------------------------------- C20
\* C20: a job is found exactly when it was created. No step removes a job
\* from the store; only create adds one; get answers with the job for an id
\* of the store and with None for every other id; and update of an id the
\* store does not hold changes nothing.
C20_FoundIffCreated ==
  [][/\ DOMAIN jobs \subseteq DOMAIN jobs'
     /\ DOMAIN jobs' # DOMAIN jobs => nDirect' = nDirect + 1 /\ direct' = direct
     /\ resp'.op = "get" /\ resp' # resp =>
          /\ resp'.code = 200 <=> resp'.job \in DOMAIN jobs
          /\ resp'.code = 200 => resp'.body = Some(jobs[resp'.job])
          /\ resp'.code # 200 => resp'.body = None
     /\ \A id \in JobIds \ DOMAIN jobs, kwargs \in DirectKwargs :
          JobStore_update(jobs, id, kwargs, clock) = jobs]_vars

\* get has answered None for an id that an update had named before, while
\* the store holds a job that was created and updated.
C20_Witness ==
  /\ resp.op = "get" /\ resp.code = 404
  /\ resp.job \in direct /\ resp.job \notin DOMAIN jobs
  /\ \E j \in DOMAIN jobs \cap direct : jobs[j].status = FAILED

\* ---------------------------------------------------------------------- C21
\* The sum of the monthly_impact of the findings at the indexes 1..n
RECURSIVE ImpactUpTo(_, _)
ImpactUpTo(findings, n) ==
  IF n = 0 THEN 0 ELSE ImpactUpTo(findings, n - 1) + findings[n].monthly_impact

\* C21: for every list of findings, the empty one included, total_impact is
\* the sum of the findings' monthly_impact and critical_count is the number
\* of findings of severity CRITICAL.
C21_ImpactAndCriticalCount ==
  resp.op = "result" =>
    /\ resp.body.total_impact = ImpactUpTo(resp.body.findings, Len(resp.body.findings))
    /\ resp.body.critical_count
         = Cardinality({i \in 1..Len(resp.body.findings) :
                          resp.body.findings[i].severity = CRITICAL})

\* A result of three findings, two of them critical (one of no impact).
C21_Witness ==
  /\ resp.op = "result"
  /\ Len(resp.body.findings) = 3
  /\ resp.body.critical_count = 2
  /\ resp.body.total_impact = 10004 + 8000

\* ---------------------------------------------------------------------- C22
\* C22: while parallel_regions(fn, regions, max_workers) runs, the number of
\* invocations of fn executing at the same time is at most
\* min(len(regions), max_workers).
C22_AtMostPoolSizeRunning ==
  Cardinality({i \in DOMAIN pr.fut : pr.fut[i].st = "running"})
    <= Min(Len(pr.regions), pr.max_workers)

\* Three regions under a cap of two: two invocations run, the third waits.
C22_Witness ==
  /\ Len(pr.regions) = 3
  /\ pr.max_workers = 2
  /\ Cardinality(Running(pr)) = 2
  /\ Cardinality(Queued(pr)) = 1

\* ---------------------------------------------------------------------- C23
\* C23: parallel_regions returns only after every dispatched invocation has
\* finished and been collected, and after it has returned no invocation
\* runs, finishes or adds to the result.
C23_JoinPoint ==
  [][/\ pr'.pc = "returned" =>
          \A i \in DOMAIN pr'.fut :
            pr'.fut[i].st \in {"returned", "raised"} /\ pr'.fut[i].seen
     /\ pr.pc = "returned" => pr'.fut = pr.fut /\ pr'.results = pr.results
    ]_vars

\* A call over three regions has returned: one invocation raised, the
\* others' items are in the result.
C23_Witness ==
  /\ pr.pc = "returned"
  /\ Len(pr.regions) = 3
  /\ \E i \in DOMAIN pr.fut : pr.fut[i].st = "raised"
  /\ Len(pr.results) >= 2

\* ---------------------------------------------------------------------- C24
Keys(d) == [i \in 1..Len(d) |-> d[i].k]

\* The accounts of a tree as the two for loops meet them
RECURSIVE Flat(_)
Flat(tree) ==
  IF tree = <<>> THEN <<>>
  ELSE [i \in 1..Len(Head(tree).accounts) |->
          <<Head(tree).name, Head(tree).accounts[i].id>>] \o Flat(Tail(tree))

\* The units of a result over a tree, and the accounts of a unit: the tree's,
\* in the tree's order, and the management entry behind them where the tree
\* does not hold it
UnitsOf(tree) ==
  LET names == [i \in 1..Len(tree) |-> tree[i].name]
  IN IF \E i \in 1..Len(tree) : tree[i].name = "Management" THEN names
     ELSE Append(names, "Management")

AccountsOf(tree, unit, mgmt_id) ==
  LET ids == IF \E i \in 1..Len(tree) : tree[i].name = unit
             THEN LET o == tree[CHOOSE i \in 1..Len(tree) : tree[i].name = unit]
                  IN [i \in 1..Len(o.accounts) |-> o.accounts[i].id]
             ELSE <<>>
  IN IF unit = "Management" /\ \A i \in 1..Len(ids) : ids[i] # mgmt_id
     THEN Append(ids, mgmt_id) ELSE ids

\* C24: the order of the units and of the accounts within each unit of a
\* completed org scan's result is a function of the tree snapshot alone, the
\* snapshot's order, whatever the timing of the scanner calls and whichever
\* credential requests failed; and the accounts are processed one at a time
\* in that order: while the credential request of an account is in flight
\* no scanner runs and every scanner of the accounts before it has finished.
C24_TreeOrder ==
  \A j \in OrgJobs :
    LET t == tasks[j]
    IN /\ t.pc \in {"assume", "member_scan", "mgmt_scan", "done"} =>
            /\ Len(t.glog) <= Len(Flat(t.org_tree))
            /\ \A k \in 1..Len(t.glog) :
                 <<t.glog[k].ou, t.glog[k].id>> = Flat(t.org_tree)[k]
       /\ t.pc = "assume" =>
            /\ t.thr = "none"
            /\ Flat(t.org_tree)[Len(t.glog) + 1] = <<CurOu(t).name, CurAcct(t).id>>
            /\ \A k \in 1..Len(t.glog) :
                 \/ t.glog[k].how \in {"assume_failed", "scan_raised"}
                 \/ Len(t.glog[k].results) = Len(t.skills)
       /\ j \in OrgCompleted =>
            /\ Keys(ByOu(j)) = UnitsOf(t.org_tree)
            /\ \A u \in 1..Len(ByOu(j)) :
                 Keys(ByOu(j)[u].v.accounts)
                   = AccountsOf(t.org_tree, ByOu(j)[u].k, t.mgmt_id)

\* A completed scan over a unit of two accounts, the first of which failed
\* its credential request.
C24_Witness ==
  \E j \in OrgCompleted :
    /\ Len(tasks[j].glog) = 2
    /\ tasks[j].glog[1].how = "assume_failed"
    /\ tasks[j].glog[2].how = "ok"
    /\ tasks[j].glog[1].ou = tasks[j].glog[2].ou
    /\ Keys(ByOu(j)) = <<"Prod", "Management">>
    /\ Keys(ByOu(j)[1].v.accounts) = <<"a1", "a2">>

\* ---------------------------------------------------------------------- C25
\* C25: a submit request, of a single scan or of an org scan, that names a
\* scanner the registry does not hold is answered with the client error 400
\* and leaves the job store as it was: no job is created and no background
\* task started.
C25_UnknownScannerRejected ==
  [][\A p \in cfg.profiles :
       (\/ \E r \in {"given", "ok", "raise"} : scan_skill("nonexistent", p, r)
        \/ \E r \in BOOLEAN : org_scan("nonexistent", p, r))
       => /\ resp'.op = "submit" /\ resp'.code = 400
          /\ jobs' = jobs /\ tasks' = tasks
    ]_vars

\* A request has been refused with 400 while the store holds a job whose
\* task is at work.
C25_Witness ==
  /\ resp.op = "submit" /\ resp.code = 400
  /\ \E j \in DOMAIN jobs : jobs[j].status = RUNNING
  /\ DOMAIN tasks = DOMAIN jobs

\* ---------------------------------------------------------------------- C26
\* The checks of a client that returned True at a time in (upto - span, upto]
AllowedIn(ip, upto, span) ==
  {i \in 1..Len(rl.log[ip]) :
     rl.log[ip][i] <= upto /\ upto - rl.log[ip][i] < span}

\* C26: per client IP, after any sequence of checks at non-decreasing times,
\* the checks allowed within any trailing 60-second window are at most
\* requests_per_minute and within any trailing 5-second window at most burst;
\* a denied check is not recorded (the times held for a client are times of
\* its allowed checks); and a check of one client changes nothing that the
\* outcome for another depends on.
C26_WindowLimits ==
  [][/\ \A ip \in ClientIps, upto \in 0..MaxNow :
          /\ Cardinality(AllowedIn(ip, upto, window))' <= rl'.rpm
          /\ Cardinality(AllowedIn(ip, upto, burst_window))' <= rl'.burst
     /\ \A ip \in ClientIps :
          /\ Len(rl'.requests[ip]) <= Len(rl'.log[ip])
          /\ \A i \in 1..Len(rl'.requests[ip]) :
               rl'.requests[ip][i]
                 = rl'.log[ip][Len(rl'.log[ip]) - Len(rl'.requests[ip]) + i]
     /\ \A ip \in ClientIps :
          (rl'.last # rl.last \/ rl'.requests[ip] # rl.requests[ip])
            /\ IsSet(rl'.last) /\ rl'.last[1].ip = ip
          => \A other \in ClientIps \ {ip} :
               rl'.requests[other] = rl.requests[other]
    ]_vars

\* A client is denied for the minute's limit while the other is allowed, and
\* an entry of that client has left the window before.
C26_Witness ==
  /\ IsSet(rl.last)
  /\ ~rl.last[1].allowed
  /\ \E ip \in ClientIps :
       /\ rl.last[1].ip = ip
       /\ Len(rl.requests[ip]) = rl.rpm
       /\ Len(rl.log[ip]) > rl.rpm
       /\ Len(Within(rl.requests[ip], rl.now, burst_window)) < rl.burst
       /\ \E other \in ClientIps \ {ip} : Len(rl.log[other]) > 0

\* ---------------------------------------------------------------------- C27
\* Over the per-scanner breakdown of an account entry
RECURSIVE SumSkills(_, _)
SumSkills(skills, field) ==
  IF skills = <<>> THEN 0
  ELSE Head(skills).v[field] + SumSkills(Tail(skills), field)

\* C27: in the result of a completed org scan every account entry, member or
\* management, with or without an error, has findings_count equal to the
\* sum of the findings_count of its per-scanner breakdown and monthly_impact
\* equal to the sum of their monthly_impact, and every finding listed under
\* the account carries the account's id.
C27_EntrySumsItsBreakdown ==
  \A j \in OrgCompleted :
    \A u \in 1..Len(ByOu(j)) :
      \A a \in 1..Len(ByOu(j)[u].v.accounts) :
        LET id == ByOu(j)[u].v.accounts[a].k
            e == ByOu(j)[u].v.accounts[a].v
        IN /\ e.findings_count = SumSkills(e.skills, "findings_count")
           /\ e.monthly_impact = SumSkills(e.skills, "monthly_impact")
           /\ \A k \in 1..Len(e.skills) :
                /\ e.skills[k].v.findings_count = Len(e.skills[k].v.findings)
                /\ \A f \in 1..Len(e.skills[k].v.findings) :
                     e.skills[k].v.findings[f].account_id = id

\* A completed scan of two scanners: a member account's second scanner
\* raised after the first had found something, so that its entry carries an
\* error and a breakdown; the management entry has two scanners' findings.
C27_Witness ==
  \E j \in OrgCompleted :
    /\ \E u \in 1..Len(ByOu(j)) :
         \E a \in 1..Len(ByOu(j)[u].v.accounts) :
           LET e == ByOu(j)[u].v.accounts[a].v
           IN IsSet(e.error) /\ Len(e.skills) = 1 /\ e.findings_count > 0
    /\ LET m == Entry(j, "Management", tasks[j].mgmt_id)
       IN Len(m.skills) = 2 /\ m.findings_count > m.skills[1].v.findings_count
          /\ m.skills[1].v.findings_count > 0

\* ---------------------------------------------------------------------- C29
\* C29: in the result of a completed org scan an account entry whose error
\* is set has findings_count 0, critical_count 0, monthly_impact 0 and an
\* empty per-scanner breakdown, whatever raised inside the per-account
\* boundary; and the error is set only when the credential request failed.
C29_ErrorEntryIsEmpty ==
  \A j \in OrgCompleted :
    /\ \A u \in 1..Len(ByOu(j)) :
         \A a \in 1..Len(ByOu(j)[u].v.accounts) :
           LET e == ByOu(j)[u].v.accounts[a].v
           IN IsSet(e.error) =>
                /\ e.findings_count = 0 /\ e.critical_count = 0
                /\ e.monthly_impact = 0 /\ e.skills = <<>>
    /\ \A k \in 1..Len(tasks[j].glog) :
         IsSet(tasks[j].glog[k].data.error)
           => tasks[j].glog[k].how = "assume_failed"

\* ---------------------------------------------------------------------- C28
\* C28: for any interleaving of concurrent org-scan jobs, once all of them
\* have ended, the three credential keys of the environment hold what they
\* held before the first job started: no job's temporary credentials remain.
C28_EnvironmentRestored ==
  (/\ OrgJobs # {}
   /\ DOMAIN tasks = DOMAIN jobs
   /\ \A j \in DOMAIN jobs : jobs[j].status \in {COMPLETED, FAILED})
  => env = Own

\* ---------------------------------------------------------------------- C30
\* C30: in a scan-all job with at least one registered scanner a scanner
\* that raises does not fail the job: the job ends COMPLETED with exactly
\* one result per requested scanner, and the result of a scanner that raised
\* has no findings and the exception's message in its errors.  In a
\* single-scanner job a scanner that raises ends the job FAILED.
C30_RaisingScanner ==
  \A j \in DOMAIN tasks :
    LET t == tasks[j]
    IN /\ t.kind = "scanall" /\ t.pc = "done" /\ Len(t.skills) >= 1 =>
            /\ jobs[j].status = COMPLETED
            /\ IsSet(jobs[j].results)
            /\ Len(jobs[j].results[1]) = Len(t.skills)
            /\ \A k \in 1..Len(t.skills) :
                 LET mine == {i \in 1..Len(jobs[j].results[1]) :
                                jobs[j].results[1][i].skill_name = t.skills[k]}
                 IN /\ Cardinality(mine) = 1
                    /\ ~t.gcur[k].ok =>
                         \A i \in mine :
                           /\ jobs[j].results[1][i].findings = <<>>
                           /\ jobs[j].results[1][i].errors = <<E_scan>>
       /\ t.kind = "scan" /\ t.pc = "done" =>
            (t.fatal = Some(E_scan)
               <=> jobs[j].status = FAILED /\ jobs[j].error = Some(E_scan))

\* A scan-all job of two scanners is COMPLETED: one scanner raised, the other
\* found something; and a single-scanner job whose scanner raised is FAILED.
C30_Witness ==
  /\ \E j \in DOMAIN tasks :
       /\ tasks[j].kind = "scanall" /\ tasks[j].pc = "done"
       /\ Len(tasks[j].skills) = 2
       /\ \E a, b \in 1..2 :
            /\ ~tasks[j].gcur[a].ok
            /\ tasks[j].gcur[b].ok /\ tasks[j].gcur[b].findings # <<>>
       /\ jobs[j].status = COMPLETED
  /\ \E j \in DOMAIN tasks :
       /\ tasks[j].kind = "scan" /\ tasks[j].fatal = Some(E_scan)
       /\ jobs[j].status = FAILED

====
